---- MODULE Spec2Model ----
(***************************************************************************)
(* simple-depot: payload decomposition, naming, detached persistence and   *)
(* retrieval-aggregation.                                                  *)
(*                                                                         *)
(* Strings are sequences of one-character strings, byte slices are         *)
(* sequences of numbers in 0..255, so that prefix tests, splitting,        *)
(* formatting and encoding are computed and not assumed.                   *)
(***************************************************************************)
EXTENDS Integers, Sequences, FiniteSets, TLC

(***************************************************************************)
(* Bounds of the model.                                                    *)
(***************************************************************************)
\* number of ingestion requests in one behaviour of the concurrent system
MaxEvents == 2
\* last instant of the clock (time.Now), in clock ticks
MaxNow == 2
\* clock ticks in one second: Unix() is the tick count divided by it
TicksPerSec == 2

\* most objects in the bucket at the start of the retrieval specification
MaxStored == 3

\* number of random bytes Generate draws
RandLen == 8

(***************************************************************************)
(* Strings (Go package strings, fmt, encoding/hex, path/filepath).         *)
(***************************************************************************)
DigitChars == <<"0", "1", "2", "3", "4", "5", "6", "7", "8", "9">>
HexChars == <<"0", "1", "2", "3", "4", "5", "6", "7", "8", "9", "a", "b", "c", "d", "e", "f">>
UpperChars == <<"A", "B", "C", "D", "E", "F", "G", "H", "I", "J", "K", "L", "M", "N", "O", "P", "Q", "R", "S", "T", "U", "V", "W", "X", "Y", "Z">>
LowerChars == <<"a", "b", "c", "d", "e", "f", "g", "h", "i", "j", "k", "l", "m", "n", "o", "p", "q", "r", "s", "t", "u", "v", "w", "x", "y", "z">>

\* fmt's %d of a non-negative integer
RECURSIVE Itoa(_)
Itoa(n) ==
    IF n < 10 THEN <<DigitChars[n + 1]>>
    ELSE Itoa(n \div 10) \o <<DigitChars[(n % 10) + 1]>>

\* hex.EncodeToString
RECURSIVE EncodeToString(_)
EncodeToString(bytes) ==
    IF bytes = <<>> THEN <<>>
    ELSE <<HexChars[(Head(bytes) \div 16) + 1], HexChars[(Head(bytes) % 16) + 1]>>
         \o EncodeToString(Tail(bytes))

\* s[i:] and s[:i] of Go, with 0-based i
From(s, i) == SubSeq(s, i + 1, Len(s))
UpTo(s, i) == SubSeq(s, 1, i)

HasPrefix(s, prefix) ==
    /\ Len(s) >= Len(prefix)
    /\ \A i \in 1..Len(prefix) : s[i] = prefix[i]

HasSuffix(s, suffix) ==
    /\ Len(s) >= Len(suffix)
    /\ \A i \in 1..Len(suffix) : s[Len(s) - Len(suffix) + i] = suffix[i]

TrimSuffix(s, suffix) ==
    IF HasSuffix(s, suffix) THEN UpTo(s, Len(s) - Len(suffix)) ELSE s

\* strings.Index: the 0-based position of the first occurrence, -1 if none
Index(s, sub) ==
    LET hits == {i \in 0..(Len(s) - Len(sub)) : HasPrefix(From(s, i), sub)}
    IN IF hits = {} THEN -1 ELSE CHOOSE i \in hits : \A j \in hits : i <= j

Contains(s, sub) == Index(s, sub) >= 0

ToLowerChar(c) ==
    IF \E i \in 1..Len(UpperChars) : UpperChars[i] = c
    THEN LowerChars[CHOOSE i \in 1..Len(UpperChars) : UpperChars[i] = c]
    ELSE c

ToLower(s) == [i \in 1..Len(s) |-> ToLowerChar(s[i])]

\* strings.Trim(s, cutset) for a one-character cutset
RECURSIVE TrimChar(_, _)
TrimChar(s, c) ==
    IF s # <<>> /\ Head(s) = c THEN TrimChar(Tail(s), c)
    ELSE IF s # <<>> /\ s[Len(s)] = c THEN TrimChar(UpTo(s, Len(s) - 1), c)
    ELSE s

TrimSpace(s) == TrimChar(s, " ")

\* strings.Split(s, sep) for a one-character sep
RECURSIVE Split(_, _)
Split(s, sep) ==
    LET i == Index(s, <<sep>>)
    IN IF i < 0 THEN <<s>> ELSE <<UpTo(s, i)>> \o Split(From(s, i + 1), sep)

\* strings.Join(parts, sep)
RECURSIVE Join(_, _)
Join(parts, sep) ==
    IF parts = <<>> THEN <<>>
    ELSE IF Len(parts) = 1 THEN parts[1]
    ELSE parts[1] \o sep \o Join(Tail(parts), sep)

\* filepath.Ext: the suffix from the last dot of the last path element
Ext(path) ==
    LET dots == {i \in 1..Len(path) :
                    /\ path[i] = "."
                    /\ \A j \in i..Len(path) : path[j] # "/"}
    IN IF dots = {} THEN <<>>
       ELSE From(path, (CHOOSE i \in dots : \A j \in dots : j <= i) - 1)

\* filepath.Base: the last path element, "." for the empty path
RECURSIVE StripSlashes(_)
StripSlashes(path) ==
    IF path # <<>> /\ path[Len(path)] = "/" THEN StripSlashes(UpTo(path, Len(path) - 1))
    ELSE path

Base(path) ==
    IF path = <<>> THEN <<".">>
    ELSE LET p == StripSlashes(path)
             slashes == {i \in 1..Len(p) : p[i] = "/"}
             last == IF slashes = {} THEN p
                     ELSE From(p, CHOOSE i \in slashes : \A j \in slashes : j <= i)
         IN IF last = <<>> THEN <<"/">> ELSE last

(***************************************************************************)
(* String literals of the source.                                          *)
(***************************************************************************)
OctetStream == <<"a", "p", "p", "l", "i", "c", "a", "t", "i", "o", "n", "/", "o", "c", "t", "e", "t", "-", "s", "t", "r", "e", "a", "m">>
MultipartFormData == <<"m", "u", "l", "t", "i", "p", "a", "r", "t", "/", "f", "o", "r", "m", "-", "d", "a", "t", "a">>
ApplicationJson == <<"a", "p", "p", "l", "i", "c", "a", "t", "i", "o", "n", "/", "j", "s", "o", "n">>
TextPlain == <<"t", "e", "x", "t", "/", "p", "l", "a", "i", "n">>
ApplicationPdf == <<"a", "p", "p", "l", "i", "c", "a", "t", "i", "o", "n", "/", "p", "d", "f">>
ImageJpeg == <<"i", "m", "a", "g", "e", "/", "j", "p", "e", "g">>
ImagePng == <<"i", "m", "a", "g", "e", "/", "p", "n", "g">>
ImageGif == <<"i", "m", "a", "g", "e", "/", "g", "i", "f">>
TextHtml == <<"t", "e", "x", "t", "/", "h", "t", "m", "l">>
TextCss == <<"t", "e", "x", "t", "/", "c", "s", "s">>
ApplicationJavascript == <<"a", "p", "p", "l", "i", "c", "a", "t", "i", "o", "n", "/", "j", "a", "v", "a", "s", "c", "r", "i", "p", "t">>
ApplicationZip == <<"a", "p", "p", "l", "i", "c", "a", "t", "i", "o", "n", "/", "z", "i", "p">>
BoundaryKey == <<"b", "o", "u", "n", "d", "a", "r", "y">>
FilenameEq == <<"f", "i", "l", "e", "n", "a", "m", "e", "=">>
PayloadWord == <<"p", "a", "y", "l", "o", "a", "d">>
DotJson == <<".", "j", "s", "o", "n">>
DotTxt == <<".", "t", "x", "t">>
DotPdf == <<".", "p", "d", "f">>
DotJpg == <<".", "j", "p", "g">>
DotJpeg == <<".", "j", "p", "e", "g">>
DotPng == <<".", "p", "n", "g">>
DotGif == <<".", "g", "i", "f">>
DotHtml == <<".", "h", "t", "m", "l">>
DotHtm == <<".", "h", "t", "m">>
DotCss == <<".", "c", "s", "s">>
DotJs == <<".", "j", "s">>
DotImg == <<".", "i", "m", "g">>
DotMultipart == <<".", "m", "u", "l", "t", "i", "p", "a", "r", "t">>
DotBin == <<".", "b", "i", "n">>
WordJson == <<"j", "s", "o", "n">>
WordText == <<"t", "e", "x", "t">>
WordImage == <<"i", "m", "a", "g", "e">>
WordMultipart == <<"m", "u", "l", "t", "i", "p", "a", "r", "t">>

(***************************************************************************)
(* mime.ParseMediaType, as DetectFromContentType and the multipart         *)
(* processor use it: the media type is the lower-cased text before the     *)
(* first ";", of the form token or token/token; parameters are ;key=value. *)
(***************************************************************************)
NonTokenChars == {" ", "(", ")", "<", ">", "@", ",", ";", ":", "\\", "\"", "/", "[", "]", "?", "="}

\* the number of leading token characters of s
TokenLen(s) ==
    LET stops == {i \in 1..Len(s) : s[i] \in NonTokenChars}
    IN IF stops = {} THEN Len(s) ELSE (CHOOSE i \in stops : \A j \in stops : i <= j) - 1

RECURSIVE TrimLeftSpace(_)
TrimLeftSpace(s) == IF s # <<>> /\ Head(s) = " " THEN TrimLeftSpace(Tail(s)) ELSE s

\* mime.checkMediaTypeDisposition
MediaTypeOk(s) ==
    LET n == TokenLen(s)
        rest == From(s, n)
    IN /\ n > 0
       /\ \/ rest = <<>>
          \/ /\ Head(rest) = "/"
             /\ TokenLen(Tail(rest)) > 0
             /\ TokenLen(Tail(rest)) = Len(Tail(rest))

\* mime.consumeValue: a token, or a quoted string (without escapes)
ConsumeValue(v) ==
    IF v = <<>> THEN [value |-> <<>>, rest |-> v, ok |-> FALSE]
    ELSE IF Head(v) # "\""
    THEN [value |-> UpTo(v, TokenLen(v)), rest |-> From(v, TokenLen(v)), ok |-> TokenLen(v) > 0]
    ELSE LET close == Index(Tail(v), <<"\"">>)
         IN IF close < 0 THEN [value |-> <<>>, rest |-> v, ok |-> FALSE]
            ELSE [value |-> UpTo(Tail(v), close), rest |-> From(Tail(v), close + 1), ok |-> TRUE]

\* mime.consumeMediaParam
ConsumeMediaParam(v) ==
    LET failed == [key |-> <<>>, value |-> <<>>, rest |-> v]
        AfterValue(key, val) ==
            IF ~val.ok THEN failed
            ELSE [key |-> key, value |-> val.value, rest |-> val.rest]
        AfterKey(key, r2) ==
            IF key = <<>> \/ ~HasPrefix(r2, <<"=">>) THEN failed
            ELSE AfterValue(key, ConsumeValue(TrimLeftSpace(Tail(r2))))
        AtKey(r1) ==
            AfterKey(ToLower(UpTo(r1, TokenLen(r1))), TrimLeftSpace(From(r1, TokenLen(r1))))
        AtParam(r0) ==
            IF ~HasPrefix(r0, <<";">>) THEN failed ELSE AtKey(TrimLeftSpace(Tail(r0)))
    IN AtParam(TrimLeftSpace(v))

\* the parameter loop of mime.ParseMediaType: the sequence of <<key, value>>
\* pairs, or an error
RECURSIVE ParseParams(_, _)
ParseParams(v, seen) ==
    LET Consumed(p) ==
            IF p.key = <<>>
            THEN [params |-> seen, err |-> TrimSpace(p.rest) # <<";">>]
            ELSE IF \E i \in 1..Len(seen) : seen[i][1] = p.key
            THEN [params |-> <<>>, err |-> TRUE]
            ELSE ParseParams(p.rest, Append(seen, <<p.key, p.value>>))
        Loop(v1) ==
            IF v1 = <<>> THEN [params |-> seen, err |-> FALSE]
            ELSE Consumed(ConsumeMediaParam(v1))
    IN Loop(TrimLeftSpace(v))

ParseMediaType(v) ==
    LET Parsed(mediatype, ps) ==
            [mediatype |-> IF ps.err THEN <<>> ELSE mediatype,
             params |-> ps.params, err |-> ps.err]
        Checked(mediatype, rest) ==
            IF ~MediaTypeOk(mediatype) THEN [mediatype |-> <<>>, params |-> <<>>, err |-> TRUE]
            ELSE Parsed(mediatype, ParseParams(rest, <<>>))
        Based(base) == Checked(TrimSpace(ToLower(base)), From(v, Len(base)))
        CutAt(cut) == Based(IF cut < 0 THEN v ELSE UpTo(v, cut))
    IN CutAt(Index(v, <<";">>))

\* params[key] of a Go map: the empty string when the key is absent
Param(params, key) ==
    IF \E i \in 1..Len(params) : params[i][1] = key
    THEN params[CHOOSE i \in 1..Len(params) : params[i][1] = key][2]
    ELSE <<>>

(***************************************************************************)
(* Content-type classifier.                                                *)
(***************************************************************************)
\* mutant: the media type is used although its parameters did not parse
DetectFromContentTypeIgnoringError(contentType) ==
    IF contentType = <<>> THEN OctetStream
    ELSE LET CutAt(cut) == TrimSpace(ToLower(IF cut < 0 THEN contentType
                                             ELSE UpTo(contentType, cut)))
         IN CutAt(Index(contentType, <<";">>))

DetectFromContentType(contentType) ==
    IF contentType = <<>> THEN OctetStream
    ELSE LET Normalized(parsed) == IF parsed.err THEN OctetStream ELSE parsed.mediatype
         IN Normalized(ParseMediaType(contentType))

DetectFromFilename(filename) ==
    IF filename = <<>> THEN OctetStream
    ELSE LET Switch(ext) ==
                 CASE ext = DotJson -> ApplicationJson
                   [] ext = DotTxt -> TextPlain
                   [] ext = DotPdf -> ApplicationPdf
                   [] ext \in {DotJpg, DotJpeg} -> ImageJpeg
                   [] ext = DotPng -> ImagePng
                   [] ext = DotGif -> ImageGif
                   [] ext \in {DotHtml, DotHtm} -> TextHtml
                   [] ext = DotCss -> TextCss
                   [] ext = DotJs -> ApplicationJavascript
                   [] OTHER -> OctetStream
         IN Switch(ToLower(Ext(filename)))

(***************************************************************************)
(* Filename extractor (Content-Disposition header).                        *)
(***************************************************************************)
Extract(contentDisposition) ==
    IF contentDisposition = <<>> THEN <<>>
    ELSE LET idx == Index(contentDisposition, FilenameEq)
         IN IF idx # -1
            THEN Base(TrimChar(From(contentDisposition, idx + Len(FilenameEq)), "\""))
            ELSE <<>>


\* mutant: timestamp and token are joined without the separator
GenerateNoSeparator(timestamp, randErr, randomBytes, nano) ==
    IF randErr THEN Itoa(timestamp) \o Itoa(nano)
    ELSE Itoa(timestamp) \o EncodeToString(randomBytes)

\* mutant: the buffer is encoded without having been filled by rand.Read
GenerateIgnoringRandom(timestamp, randErr, randomBytes, nano) ==
    IF randErr THEN Itoa(timestamp) \o <<"_">> \o Itoa(nano)
    ELSE Itoa(timestamp) \o <<"_">> \o EncodeToString([i \in 1..RandLen |-> 0])

(***************************************************************************)
(* Identifier generator.  timestamp is time.Now().Unix(); randErr tells    *)
(* that rand.Read failed, randomBytes is what it read, nano is the         *)
(* time.Now().UnixNano() of the fallback.                                  *)
(***************************************************************************)
Generate(timestamp, randErr, randomBytes, nano) ==
    IF randErr THEN Itoa(timestamp) \o <<"_">> \o Itoa(nano)
    ELSE Itoa(timestamp) \o <<"_">> \o EncodeToString(randomBytes)

(***************************************************************************)
(* Object namer.                                                           *)
(***************************************************************************)

\* mutant: the event id is appended to the name instead of leading it
generateObjectNameIdLast(requestID, originalFilename, contentType) ==
    IF originalFilename # <<>>
    THEN Base(originalFilename) \o <<"_">> \o requestID
    ELSE PayloadWord \o DotBin \o <<"_">> \o requestID

\* mutant: a named file is stored under its own name, without the event id
generateObjectNameNoId(requestID, originalFilename, contentType) ==
    IF originalFilename # <<>>
    THEN Base(originalFilename)
    ELSE requestID \o <<"_">> \o PayloadWord \o DotBin

\* mutant: the extension is lower-cased
generateObjectNameLowerExt(requestID, originalFilename, contentType) ==
    IF originalFilename # <<>>
    THEN LET ext == Ext(originalFilename)
             base == TrimSuffix(Base(originalFilename), ext)
         IN requestID \o <<"_">> \o base \o ToLower(ext)
    ELSE LET ext == IF Contains(contentType, WordJson) THEN DotJson
                    ELSE IF Contains(contentType, WordText) THEN DotTxt
                    ELSE IF Contains(contentType, WordImage) THEN DotImg
                    ELSE IF Contains(contentType, WordMultipart) THEN DotMultipart
                    ELSE DotBin
         IN requestID \o <<"_">> \o PayloadWord \o ext

\* mutant: "text" is looked for before "json"
generateObjectNameTextFirst(requestID, originalFilename, contentType) ==
    IF originalFilename # <<>>
    THEN LET ext == Ext(originalFilename)
             base == TrimSuffix(Base(originalFilename), ext)
         IN requestID \o <<"_">> \o base \o ext
    ELSE LET ext == IF Contains(contentType, WordText) THEN DotTxt
                    ELSE IF Contains(contentType, WordJson) THEN DotJson
                    ELSE IF Contains(contentType, WordImage) THEN DotImg
                    ELSE IF Contains(contentType, WordMultipart) THEN DotMultipart
                    ELSE DotBin
         IN requestID \o <<"_">> \o PayloadWord \o ext

generateObjectName(requestID, originalFilename, contentType) ==
    IF originalFilename # <<>>
    THEN LET ext == Ext(originalFilename)
             base == TrimSuffix(Base(originalFilename), ext)
         IN requestID \o <<"_">> \o base \o ext
    ELSE LET ext == IF Contains(contentType, WordJson) THEN DotJson
                    ELSE IF Contains(contentType, WordText) THEN DotTxt
                    ELSE IF Contains(contentType, WordImage) THEN DotImg
                    ELSE IF Contains(contentType, WordMultipart) THEN DotMultipart
                    ELSE DotBin
         IN requestID \o <<"_">> \o PayloadWord \o ext

multipartGenerateObjectName(requestID, filename) ==
    IF filename = <<>> THEN requestID \o <<"_">> \o PayloadWord \o DotBin
    ELSE LET ext == Ext(filename)
             base == TrimSuffix(Base(filename), ext)
         IN requestID \o <<"_">> \o base \o ext

(***************************************************************************)
(* Requests.  A body is its raw bytes together with what mime/multipart    *)
(* reads from it: the boundary it is framed on, its parts in order, and    *)
(* whether the part sequence ends with the closing boundary ("eof") or     *)
(* with a framing error ("err").  A part carries the file name its         *)
(* Content-Disposition declares (empty for a form field), its bytes, and   *)
(* whether reading it fails (readErr: a part cut short or an undecodable   *)
(* transfer encoding).                                                     *)
(***************************************************************************)
Part(filename, data, readErr) == [filename |-> filename, data |-> data, readErr |-> readErr]

RawBody(raw) == [raw |-> raw, boundary |-> <<>>, parts |-> <<>>, end |-> "err"]

FormBody(raw, boundary, parts, end) ==
    [raw |-> raw, boundary |-> boundary, parts |-> parts, end |-> end]

Request(contentType, disposition, body) ==
    [contentType |-> contentType, disposition |-> disposition, body |-> body]

BytesHi == <<104, 105>>
BytesBraces == <<123, 125>>
BytesX == <<120>>

NameATxt == <<"a", ".", "t", "x", "t">>
NameBJson == <<"b", ".", "j", "s", "o", "n">>
NameUnderscore == <<"m", "y", "_", "f", "i", "l", "e", ".", "T", "X", "T">>

HeaderJson == ApplicationJson
HeaderTextCharset == <<"t", "e", "x", "t", "/", "p", "l", "a", "i", "n", ";", " ", "c", "h", "a", "r", "s", "e", "t", "=", "u", "t", "f", "-", "8">>
HeaderForm == <<"m", "u", "l", "t", "i", "p", "a", "r", "t", "/", "f", "o", "r", "m", "-", "d", "a", "t", "a", ";", " ", "b", "o", "u", "n", "d", "a", "r", "y", "=", "b">>
HeaderFormOther == <<"m", "u", "l", "t", "i", "p", "a", "r", "t", "/", "f", "o", "r", "m", "-", "d", "a", "t", "a", ";", " ", "b", "o", "u", "n", "d", "a", "r", "y", "=", "c">>
HeaderFormNoBoundary == MultipartFormData
HeaderFormBroken == <<"m", "u", "l", "t", "i", "p", "a", "r", "t", "/", "f", "o", "r", "m", "-", "d", "a", "t", "a", ";", " ", "b", "o", "u", "n", "d", "a", "r", "y">>
\* a media type that is not multipart/form-data and begins with it
HeaderFormLonger == MultipartFormData \o <<"2">>
\* headers mime.ParseMediaType refuses: text after the subtype, and a
\* parameter given twice
HeaderFormNoSemicolon == <<"m", "u", "l", "t", "i", "p", "a", "r", "t", "/", "f", "o", "r", "m", "-", "d", "a", "t", "a", " ", "b", "o", "u", "n", "d", "a", "r", "y", "=", "b">>
HeaderFormTwice == HeaderForm \o <<";", " ", "b", "o", "u", "n", "d", "a", "r", "y", "=", "b">>

DispositionDup == <<"a", "t", "t", "a", "c", "h", "m", "e", "n", "t", ";", " ", "f", "i", "l", "e", "n", "a", "m", "e", "=", "\"", "d", "u", "p", ".", "t", "x", "t", "\"">>
DispositionBin == <<"a", "t", "t", "a", "c", "h", "m", "e", "n", "t", ";", " ", "f", "i", "l", "e", "n", "a", "m", "e", "=", "\"", "t", "e", "s", "t", "1", ".", "b", "i", "n", "\"">>
DispositionUnderscore == <<"f", "i", "l", "e", "n", "a", "m", "e", "=", "m", "y", "_", "f", "i", "l", "e", ".", "T", "X", "T">>

\* the bodies framed on boundary "b", and one framed on the empty boundary
\* (its delimiter lines are "--")
FormBodies ==
    { FormBody(<<45, 45, 13, 10>>, <<>>, <<Part(NameATxt, BytesHi, FALSE)>>, "eof"),
      FormBody(<<45, 45, 98, 1>>, <<"b">>,
               <<Part(NameATxt, BytesHi, FALSE), Part(<<>>, BytesX, FALSE),
                 Part(NameBJson, BytesBraces, FALSE)>>, "eof"),
      FormBody(<<45, 45, 98, 2>>, <<"b">>, <<Part(<<>>, BytesX, FALSE)>>, "eof"),
      FormBody(<<45, 45, 98, 3>>, <<"b">>,
               <<Part(NameATxt, BytesHi, FALSE), Part(NameATxt, BytesBraces, FALSE)>>, "eof"),
      FormBody(<<45, 45, 98, 4>>, <<"b">>, <<Part(NameATxt, BytesHi, FALSE)>>, "err"),
      FormBody(<<45, 45, 98, 5>>, <<"b">>,
               <<Part(NameATxt, BytesHi, TRUE), Part(NameBJson, BytesBraces, FALSE)>>, "eof"),
      FormBody(<<45, 45, 98, 6>>, <<"b">>,
               <<Part(NameATxt, BytesHi, FALSE), Part(NameBJson, BytesBraces, TRUE)>>, "err") }

Bodies == {RawBody(BytesHi), RawBody(BytesBraces)} \cup FormBodies

Headers ==
    {<<>>, HeaderJson, HeaderTextCharset, HeaderForm, HeaderFormOther,
     HeaderFormNoBoundary, HeaderFormBroken, HeaderFormLonger,
     HeaderFormNoSemicolon, HeaderFormTwice}

Dispositions == {<<>>, DispositionDup, DispositionBin, DispositionUnderscore}

\* every request of the decomposition specification
Requests == {Request(h, d, b) : h \in Headers, d \in Dispositions, b \in Bodies}

\* the requests of the concurrent specification: the i-th request uploads
\* version i of one and the same file name
ConcurrentRequest(i) == Request(HeaderTextCharset, DispositionDup, RawBody(<<118, 48 + i>>))

\* what rand.Read may deliver
RandomReads == {[i \in 1..RandLen |-> b] : b \in {0, 171}}

(***************************************************************************)
(* Payload decomposer.                                                     *)
(***************************************************************************)
ProcessedPayload(objectName, data, contentType, filename) ==
    [ObjectName |-> objectName, Data |-> data, ContentType |-> contentType,
     Filename |-> filename]

\* multipart.NewReader(data, boundary) and the sequence of NextPart results.
\* NewReader does not look at the boundary: with the empty boundary the
\* delimiter lines are "--" and a body made of such lines is read as parts.
NewReader(data, boundary) ==
    IF boundary = data.boundary
    THEN [parts |-> data.parts, end |-> data.end]
    ELSE [parts |-> <<>>, end |-> "err"]


\* mutant: form fields are captured too, under the name of an anonymous
\* payload
RECURSIVE CapturedPartsWithFields(_, _)
CapturedPartsWithFields(requestID, parts) ==
    IF parts = <<>> THEN <<>>
    ELSE LET part == Head(parts)
             rest == CapturedPartsWithFields(requestID, Tail(parts))
         IN IF part.readErr THEN rest
            ELSE <<ProcessedPayload(multipartGenerateObjectName(requestID, part.filename),
                                    part.data, DetectFromFilename(part.filename),
                                    part.filename)>> \o rest

\* the loop body of the multipart processor over the parts NextPart delivers
RECURSIVE CapturedParts(_, _)
CapturedParts(requestID, parts) ==
    IF parts = <<>> THEN <<>>
    ELSE LET part == Head(parts)
             rest == CapturedParts(requestID, Tail(parts))
         IN IF part.filename = <<>> THEN rest
            ELSE IF part.readErr THEN rest
            ELSE <<ProcessedPayload(multipartGenerateObjectName(requestID, part.filename),
                                    part.data, DetectFromFilename(part.filename),
                                    part.filename)>> \o rest

\* mutant: a form without a file is refused
MultipartProcessRequireFile(requestID, data, contentType, filename) ==
    LET Loop(mr) ==
            IF mr.end = "err" \/ CapturedParts(requestID, mr.parts) = <<>>
            THEN [payloads |-> <<>>, err |-> TRUE]
            ELSE [payloads |-> CapturedParts(requestID, mr.parts), err |-> FALSE]
        Parsed(parsed) ==
            IF parsed.err THEN [payloads |-> <<>>, err |-> TRUE]
            ELSE Loop(NewReader(data, Param(parsed.params, BoundaryKey)))
    IN Parsed(ParseMediaType(contentType))

MultipartProcess(requestID, data, contentType, filename) ==
    LET Loop(mr) ==
            IF mr.end = "err" THEN [payloads |-> <<>>, err |-> TRUE]
            ELSE [payloads |-> CapturedParts(requestID, mr.parts), err |-> FALSE]
        Parsed(parsed) ==
            IF parsed.err THEN [payloads |-> <<>>, err |-> TRUE]
            ELSE Loop(NewReader(data, Param(parsed.params, BoundaryKey)))
    IN Parsed(ParseMediaType(contentType))

\* mutant: the declared header wins unless it is the generic binary type
ProcessHeaderFirst(requestID, data, contentType, filename) ==
    LET Final(normalizedContentType, fileBasedContentType) ==
            IF filename # <<>> /\ normalizedContentType = OctetStream
            THEN fileBasedContentType
            ELSE normalizedContentType
        Normalized(normalizedContentType) ==
            IF HasPrefix(normalizedContentType, MultipartFormData)
            THEN MultipartProcess(requestID, data, contentType, filename)
            ELSE [payloads |->
                     <<ProcessedPayload(
                           generateObjectName(requestID, filename, normalizedContentType),
                           data.raw,
                           Final(normalizedContentType, DetectFromFilename(filename)),
                           filename)>>,
                  err |-> FALSE]
    IN Normalized(DetectFromContentType(contentType))

Process(requestID, data, contentType, filename) ==
    LET Final(normalizedContentType, fileBasedContentType) ==
            IF filename # <<>> /\ fileBasedContentType # OctetStream
            THEN fileBasedContentType
            ELSE normalizedContentType
        Normalized(normalizedContentType) ==
            IF HasPrefix(normalizedContentType, MultipartFormData)
            THEN MultipartProcess(requestID, data, contentType, filename)
            ELSE [payloads |->
                     <<ProcessedPayload(
                           generateObjectName(requestID, filename, normalizedContentType),
                           data.raw,
                           Final(normalizedContentType, DetectFromFilename(filename)),
                           filename)>>,
                  err |-> FALSE]
    IN Normalized(DetectFromContentType(contentType))

(***************************************************************************)
(* State.                                                                  *)
(*   now     the clock, in ticks                                           *)
(*   events  the ingestion requests handled so far, in arrival order; each *)
(*           holds the handler's locals, the detached save task (its       *)
(*           payloads, the position of its loop, the outcome it logged for *)
(*           every Save) and the response sent, if any                     *)
(*   store   the bucket of the storage service: object name -> object      *)
(*   get     the retrieval in progress                                     *)
(*   call    a single call of one of the pure functions: its arguments and *)
(*           its result                                                    *)
(***************************************************************************)
VARIABLES now, events, store, get, call

vars == <<now, events, store, get, call>>

EventIds == 1..Len(events)

(***************************************************************************)
(* Storage service (MinIO).                                                *)
(***************************************************************************)
\* the content type PutObject is given
PutContentType(objectName, contentType) ==
    IF HasSuffix(objectName, DotJson) THEN ApplicationJson
    ELSE IF HasSuffix(objectName, DotBin) THEN OctetStream
    ELSE IF contentType = <<>> THEN OctetStream
    ELSE contentType

\* mutant: an object that exists is not written again
SavePayloadKeepFirst(bucket, objectName, data, contentType) ==
    [n \in DOMAIN bucket \cup {objectName} |->
        IF n \in DOMAIN bucket THEN bucket[n]
        ELSE [data |-> data, contentType |-> PutContentType(objectName, contentType)]]

\* the bucket after a successful SavePayload
SavePayload(bucket, objectName, data, contentType) ==
    [n \in DOMAIN bucket \cup {objectName} |->
        IF n = objectName
        THEN [data |-> data, contentType |-> PutContentType(objectName, contentType)]
        ELSE bucket[n]]

(***************************************************************************)
(* Payload service: ingestion.                                             *)
(***************************************************************************)

\* StorePayload up to its return: the id it generated, what it returns
\* (requestID, err) and the save task it detached (spawned, payloads)
StorePayload(draw, data, contentType, filename) ==
    LET Processed(requestID, processed) ==
            IF processed.err
            THEN [generated |-> requestID, requestID |-> <<>>, err |-> TRUE,
                  spawned |-> FALSE, payloads |-> <<>>]
            ELSE [generated |-> requestID, requestID |-> requestID, err |-> FALSE,
                  spawned |-> TRUE, payloads |-> processed.payloads]
        Generated(requestID) ==
            Processed(requestID, Process(requestID, data, contentType, filename))
    IN Generated(Generate(draw.timestamp, draw.randErr, draw.randomBytes, draw.nano))


\* mutant: the key original_filename is always written
FormatDepotResponseAlwaysFilename(requestID, size, timestamp, filename) ==
    [status |-> "accepted", request_id |-> requestID, size |-> size,
     timestamp |-> timestamp, original_filename |-> filename]

\* the response formatter of the depot endpoint
FormatDepotResponse(requestID, size, timestamp, filename) ==
    IF filename # <<>>
    THEN [status |-> "accepted", request_id |-> requestID, size |-> size,
          timestamp |-> timestamp, original_filename |-> filename]
    ELSE [status |-> "accepted", request_id |-> requestID, size |-> size,
          timestamp |-> timestamp]

\* DepotHandler from reading the request to the return of StorePayload.
\* d is the time that passed since the last request; rnd is what rand.Read
\* does (fails, or delivers bytes).
DepotHandler(req, d, randErr, randomBytes) ==
    /\ Len(events) < MaxEvents
    /\ now + d <= MaxNow
    /\ now' = now + d
    /\ LET contentType == IF req.contentType = <<>> THEN OctetStream ELSE req.contentType
           draw == [timestamp |-> now' \div TicksPerSec, randErr |-> randErr,
                    randomBytes |-> IF randErr THEN <<>> ELSE randomBytes,
                    nano |-> IF randErr THEN now' ELSE 0]
           Handled(originalFilename, stored) ==
               [req |-> req, reqTime |-> now' \div TicksPerSec,
                originalFilename |-> originalFilename, draw |-> draw,
                generated |-> stored.generated, requestID |-> stored.requestID,
                err |-> stored.err, spawned |-> stored.spawned,
                payloads |-> stored.payloads, next |-> 1, log |-> <<>>,
                resp |-> <<>>]
           Extracted(originalFilename) ==
               Handled(originalFilename,
                       StorePayload(draw, req.body, contentType, originalFilename))
       IN events' = Append(events, Extracted(Extract(req.disposition)))
    /\ UNCHANGED <<store, get, call>>


\* mutant: a failed Save is tried again
SaveNextRetry(e, ok) ==
    /\ e \in EventIds
    /\ events[e].spawned
    /\ events[e].next <= Len(events[e].payloads)
    /\ LET payload == events[e].payloads[events[e].next]
       IN /\ store' = IF ok
                      THEN SavePayload(store, payload.ObjectName, payload.Data,
                                       payload.ContentType)
                      ELSE store
          /\ events' = [events EXCEPT
                 ![e].next = IF ok THEN @ + 1 ELSE @,
                 ![e].log = Append(@, [name |-> payload.ObjectName, ok |-> ok])]
    /\ UNCHANGED <<now, get, call>>

\* mutant: the loop of the save task ends after its first Save
SaveNextOnlyFirst(e, ok) ==
    /\ e \in EventIds
    /\ events[e].spawned
    /\ events[e].next <= Len(events[e].payloads)
    /\ LET payload == events[e].payloads[events[e].next]
       IN /\ store' = IF ok
                      THEN SavePayload(store, payload.ObjectName, payload.Data,
                                       payload.ContentType)
                      ELSE store
          /\ events' = [events EXCEPT
                 ![e].next = Len(events[e].payloads) + 1,
                 ![e].log = Append(@, [name |-> payload.ObjectName, ok |-> ok])]
    /\ UNCHANGED <<now, get, call>>

\* one iteration of the loop of the detached save task of event e: a single
\* SavePayload call, which succeeds or fails; either way the loop moves on
SaveNext(e, ok) ==
    /\ e \in EventIds
    /\ events[e].spawned
    /\ events[e].next <= Len(events[e].payloads)
    /\ LET payload == events[e].payloads[events[e].next]
       IN /\ store' = IF ok
                      THEN SavePayload(store, payload.ObjectName, payload.Data,
                                       payload.ContentType)
                      ELSE store
          /\ events' = [events EXCEPT
                 ![e].next = @ + 1,
                 ![e].log = Append(@, [name |-> payload.ObjectName, ok |-> ok])]
    /\ UNCHANGED <<now, get, call>>


\* mutant: the handler waits for the Saves and reports a failed one
SendResponseAfterSaves(e) ==
    /\ e \in EventIds
    /\ events[e].resp = <<>>
    /\ events[e].next > Len(events[e].payloads)
    /\ events' = [events EXCEPT ![e].resp =
           IF events[e].err \/ \E i \in 1..Len(events[e].log) : ~events[e].log[i].ok
           THEN <<[code |-> 500, body |-> [error |-> "Error storing payload"]]>>
           ELSE <<[code |-> 200,
                   body |-> FormatDepotResponse(events[e].requestID,
                                                Len(events[e].req.body.raw),
                                                events[e].reqTime,
                                                events[e].originalFilename)]>>]
    /\ UNCHANGED <<now, store, get, call>>

\* the rest of DepotHandler: the error answer, or the accepted answer
SendResponse(e) ==
    /\ e \in EventIds
    /\ events[e].resp = <<>>
    /\ events' = [events EXCEPT ![e].resp =
           IF events[e].err
           THEN <<[code |-> 500, body |-> [error |-> "Error storing payload"]]>>
           ELSE <<[code |-> 200,
                   body |-> FormatDepotResponse(events[e].requestID,
                                                Len(events[e].req.body.raw),
                                                events[e].reqTime,
                                                events[e].originalFilename)]>>]
    /\ UNCHANGED <<now, store, get, call>>

(***************************************************************************)
(* encoding/base64, StdEncoding.                                           *)
(***************************************************************************)
Base64Chars == UpperChars \o LowerChars \o DigitChars \o <<"+", "/">>

RECURSIVE EncodeBase64(_)
EncodeBase64(src) ==
    IF src = <<>> THEN <<>>
    ELSE IF Len(src) = 1
    THEN <<Base64Chars[(src[1] \div 4) + 1], Base64Chars[((src[1] % 4) * 16) + 1], "=", "=">>
    ELSE IF Len(src) = 2
    THEN <<Base64Chars[(src[1] \div 4) + 1],
           Base64Chars[((src[1] % 4) * 16 + src[2] \div 16) + 1],
           Base64Chars[((src[2] % 16) * 4) + 1], "=">>
    ELSE <<Base64Chars[(src[1] \div 4) + 1],
           Base64Chars[((src[1] % 4) * 16 + src[2] \div 16) + 1],
           Base64Chars[((src[2] % 16) * 4 + src[3] \div 64) + 1],
           Base64Chars[(src[3] % 64) + 1]>> \o EncodeBase64(From(src, 3))

IsBase64Char(c) == \E i \in 1..64 : Base64Chars[i] = c
Base64Value(c) == (CHOOSE i \in 1..64 : Base64Chars[i] = c) - 1

\* DecodeString: the bytes, or an error on corrupt input
RECURSIVE DecodeBase64(_)
DecodeBase64(s) ==
    IF s = <<>> THEN [bytes |-> <<>>, err |-> FALSE]
    ELSE IF Len(s) < 4 \/ ~IsBase64Char(s[1]) \/ ~IsBase64Char(s[2])
    THEN [bytes |-> <<>>, err |-> TRUE]
    ELSE LET a == Base64Value(s[1])
             b == Base64Value(s[2])
             first == a * 4 + b \div 16
         IN IF s[3] = "="
            THEN [bytes |-> <<first>>, err |-> ~(Len(s) = 4 /\ s[4] = "=")]
            ELSE IF ~IsBase64Char(s[3]) THEN [bytes |-> <<>>, err |-> TRUE]
            ELSE LET c == Base64Value(s[3])
                     second == (b % 16) * 16 + c \div 4
                 IN IF s[4] = "="
                    THEN [bytes |-> <<first, second>>, err |-> Len(s) # 4]
                    ELSE IF ~IsBase64Char(s[4]) THEN [bytes |-> <<>>, err |-> TRUE]
                    ELSE LET rest == DecodeBase64(From(s, 4))
                         IN [bytes |-> <<first, second, (c % 4) * 64 + Base64Value(s[4])>>
                                       \o rest.bytes,
                             err |-> rest.err]

(***************************************************************************)
(* Payload service: retrieval.                                             *)
(***************************************************************************)
\* mutant: the type is looked up in the table of file extensions
determineContentTypeByExtension(objectName) == DetectFromFilename(objectName)

determineContentType(objectName) ==
    IF HasSuffix(objectName, DotJson) THEN ApplicationJson
    ELSE IF HasSuffix(objectName, DotTxt) THEN TextPlain
    ELSE IF HasSuffix(objectName, DotImg) THEN OctetStream
    ELSE IF HasSuffix(objectName, DotMultipart) THEN MultipartFormData
    ELSE OctetStream

extractOriginalFilename(objectName) ==
    LET parts == Split(objectName, "_")
    IN IF Len(parts) > 2
       THEN LET filenameWithExt == Join(From(parts, 2), <<"_">>)
            IN IF HasPrefix(filenameWithExt, PayloadWord) THEN <<>> ELSE filenameWithExt
       ELSE <<>>

FormatFileInfo(objectName, originalFilename, data, contentType) ==
    [ObjectName |-> objectName, OriginalFilename |-> originalFilename,
     Size |-> Len(data), ContentType |-> contentType,
     PayloadBase64 |-> EncodeBase64(data)]


\* mutant: the prefix is tested without the separator
MatchesWithoutSeparator(obj, requestID) ==
    \/ HasPrefix(obj, requestID)
    \/ HasPrefix(obj, requestID \o <<"_">> \o PayloadWord)

\* mutant: only the seconds of the request id are compared
MatchesSecond(obj, requestID) ==
    LET k == CHOOSE i \in 1..Len(requestID) :
                 requestID[i] = "_" /\ \A j \in 1..(i - 1) : requestID[j] # "_"
    IN HasPrefix(obj, SubSeq(requestID, 1, k))

\* the test of the listing loop: does the object belong to the request id
Matches(obj, requestID) ==
    \/ HasPrefix(obj, requestID \o <<"_">>)
    \/ HasPrefix(obj, requestID \o <<"_">> \o PayloadWord)

\* mutant: the suggested filename is always the object name
formatSingleFileResponseObjectName(file) ==
    LET decoded == DecodeBase64(file.PayloadBase64)
    IN IF decoded.err THEN [err |-> "failed to decode file"]
       ELSE [err |-> "", filename |-> file.ObjectName, content_type |-> file.ContentType,
             data |-> decoded.bytes]

formatSingleFileResponse(file) ==
    LET filename == IF file.OriginalFilename = <<>> THEN file.ObjectName
                    ELSE file.OriginalFilename
        decoded == DecodeBase64(file.PayloadBase64)
    IN IF decoded.err THEN [err |-> "failed to decode file"]
       ELSE [err |-> "", filename |-> filename, content_type |-> file.ContentType,
             data |-> decoded.bytes]

\* mutant: every entry is named by the object name
RECURSIVE CreateZipObjectNames(_)
CreateZipObjectNames(files) ==
    IF files = <<>> THEN <<>>
    ELSE LET file == Head(files)
             decoded == DecodeBase64(file.PayloadBase64)
         IN IF decoded.err THEN CreateZipObjectNames(Tail(files))
            ELSE <<[name |-> file.ObjectName, data |-> decoded.bytes]>>
                     \o CreateZipObjectNames(Tail(files))

\* the archive: its entries in the order they were created
RECURSIVE CreateZip(_)
CreateZip(files) ==
    IF files = <<>> THEN <<>>
    ELSE LET file == Head(files)
             filename == IF file.OriginalFilename = <<>> THEN file.ObjectName
                         ELSE file.OriginalFilename
             decoded == DecodeBase64(file.PayloadBase64)
         IN IF decoded.err THEN CreateZip(Tail(files))
            ELSE <<[name |-> filename, data |-> decoded.bytes]>> \o CreateZip(Tail(files))

formatZipResponse(files, requestID) ==
    [err |-> "", filename |-> <<"p", "a", "y", "l", "o", "a", "d", "s", "_">> \o requestID \o <<".", "z", "i", "p">>,
     content_type |-> ApplicationZip, data |-> CreateZip(files)]

FormatGetResponse(requestID, files, count) ==
    [err |-> "", request_id |-> requestID, files |-> files, count |-> count]

\* mutant: the raw formatting comes before the test for an empty result
RetrieveResultRawFirst(requestID, raw, matched) ==
    IF raw
    THEN IF Len(matched) = 1 THEN formatSingleFileResponse(matched[1])
         ELSE formatZipResponse(matched, requestID)
    ELSE IF Len(matched) = 0 THEN [err |-> "no payloads found for request_id"]
    ELSE FormatGetResponse(requestID, matched, Len(matched))

\* RetrievePayloads after its listing loop
RetrieveResult(requestID, raw, matched) ==
    IF Len(matched) = 0 THEN [err |-> "no payloads found for request_id"]
    ELSE IF raw
    THEN IF Len(matched) = 1 THEN formatSingleFileResponse(matched[1])
         ELSE formatZipResponse(matched, requestID)
    ELSE FormatGetResponse(requestID, matched, Len(matched))

\* what GetHandler writes for a result of RetrievePayloads
GetResponse(raw, result) ==
    IF result.err # "" THEN [code |-> 404, body |-> result.err]
    ELSE IF raw
    THEN [code |-> 200, contentType |-> result.content_type,
          filename |-> result.filename, body |-> result.data]
    ELSE [code |-> 200, contentType |-> ApplicationJson, body |-> result]

\* every order ListPayloads may deliver the object names in
RECURSIVE Listings(_)
Listings(names) ==
    IF names = {} THEN {<<>>}
    ELSE UNION {{<<n>> \o rest : rest \in Listings(names \ {n})} : n \in names}

\* GetHandler up to the listing of RetrievePayloads: a missing request_id
\* is refused, a failed listing ends the retrieval, else the loop starts
GetHandler(requestID, raw, listOk, objects) ==
    /\ get.pc = "idle"
    /\ get' = IF requestID = <<>>
              THEN [pc |-> "done", requestID |-> requestID, raw |-> raw, listed |-> FALSE,
                    listErr |-> FALSE,
                    objects |-> <<>>, idx |-> 1, matched |-> <<>>, failed |-> {},
                    resp |-> [code |-> 400, body |-> "Missing request_id query parameter"]]
              ELSE IF ~listOk
              THEN [pc |-> "done", requestID |-> requestID, raw |-> raw, listed |-> TRUE,
                    listErr |-> TRUE,
                    objects |-> <<>>, idx |-> 1, matched |-> <<>>, failed |-> {},
                    resp |-> GetResponse(raw, [err |-> "error listing payloads"])]
              ELSE [pc |-> "loop", requestID |-> requestID, raw |-> raw, listed |-> TRUE,
                    listErr |-> FALSE,
                    objects |-> objects, idx |-> 1, matched |-> <<>>, failed |-> {}]
    /\ UNCHANGED <<now, events, store, call>>

\* mutant: a failed fetch ends the retrieval with the error
GetNextAbortOnFailure(ok) ==
    /\ get.pc = "loop"
    /\ get.idx <= Len(get.objects)
    /\ LET obj == get.objects[get.idx]
       IN IF Matches(obj, get.requestID)
          THEN IF ok
               THEN get' = [get EXCEPT
                        !.idx = @ + 1,
                        !.matched = Append(@, FormatFileInfo(obj, extractOriginalFilename(obj),
                                                             store[obj].data,
                                                             determineContentType(obj)))]
               ELSE get' = [pc |-> "done", requestID |-> get.requestID, raw |-> get.raw,
                            listed |-> TRUE, listErr |-> FALSE, objects |-> get.objects,
                            idx |-> get.idx, matched |-> get.matched,
                            failed |-> get.failed \cup {obj},
                            resp |-> [code |-> 404, body |-> "error getting payload"]]
          ELSE ok /\ get' = [get EXCEPT !.idx = @ + 1]
    /\ UNCHANGED <<now, events, store, call>>

\* mutant: a fetched object is taken out of the bucket
GetNextConsume(ok) ==
    /\ get.pc = "loop"
    /\ get.idx <= Len(get.objects)
    /\ LET obj == get.objects[get.idx]
       IN IF Matches(obj, get.requestID)
          THEN IF ok
               THEN /\ get' = [get EXCEPT
                        !.idx = @ + 1,
                        !.matched = Append(@, FormatFileInfo(obj, extractOriginalFilename(obj),
                                                             store[obj].data,
                                                             determineContentType(obj)))]
                    /\ store' = [n \in DOMAIN store \ {obj} |-> store[n]]
               ELSE /\ get' = [get EXCEPT !.idx = @ + 1, !.failed = @ \cup {obj}]
                    /\ store' = store
          ELSE ok /\ get' = [get EXCEPT !.idx = @ + 1] /\ store' = store
    /\ UNCHANGED <<now, events, call>>

\* mutant: the content type is the one the object was saved with
GetNextStoredType(ok) ==
    /\ get.pc = "loop"
    /\ get.idx <= Len(get.objects)
    /\ LET obj == get.objects[get.idx]
       IN IF Matches(obj, get.requestID)
          THEN IF ok
               THEN get' = [get EXCEPT
                        !.idx = @ + 1,
                        !.matched = Append(@, FormatFileInfo(obj, extractOriginalFilename(obj),
                                                             store[obj].data,
                                                             store[obj].contentType))]
               ELSE get' = [get EXCEPT !.idx = @ + 1, !.failed = @ \cup {obj}]
          ELSE ok /\ get' = [get EXCEPT !.idx = @ + 1]
    /\ UNCHANGED <<now, events, store, call>>

\* one iteration of the listing loop: skip an object of another request,
\* fetch a matching one; a failed fetch is logged and skipped
GetNext(ok) ==
    /\ get.pc = "loop"
    /\ get.idx <= Len(get.objects)
    /\ LET obj == get.objects[get.idx]
       IN IF Matches(obj, get.requestID)
          THEN IF ok
               THEN get' = [get EXCEPT
                        !.idx = @ + 1,
                        !.matched = Append(@, FormatFileInfo(obj, extractOriginalFilename(obj),
                                                             store[obj].data,
                                                             determineContentType(obj)))]
               ELSE get' = [get EXCEPT !.idx = @ + 1, !.failed = @ \cup {obj}]
          ELSE ok /\ get' = [get EXCEPT !.idx = @ + 1]
    /\ UNCHANGED <<now, events, store, call>>

\* the end of RetrievePayloads and the answer of GetHandler
GetFinish ==
    /\ get.pc = "loop"
    /\ get.idx > Len(get.objects)
    /\ get' = [pc |-> "done", requestID |-> get.requestID, raw |-> get.raw,
               listed |-> TRUE, listErr |-> FALSE, objects |-> get.objects,
               idx |-> get.idx,
               matched |-> get.matched, failed |-> get.failed,
               resp |-> GetResponse(get.raw,
                                    RetrieveResult(get.requestID, get.raw, get.matched))]
    /\ UNCHANGED <<now, events, store, call>>

(***************************************************************************)
(* Buckets and request ids of the retrieval specification.                 *)
(***************************************************************************)
\* two ids of the same second, as Generate makes them
IdA == Generate(0, FALSE, [i \in 1..RandLen |-> 0], 0)
IdB == Generate(0, FALSE, [i \in 1..RandLen |-> 171], 0)

\* the objects a bucket may hold: name and bytes
StoredObjects ==
    { <<generateObjectName(IdA, <<>>, ApplicationJson), BytesBraces>>,
      <<generateObjectName(IdA, NameATxt, TextPlain), BytesHi>>,
      <<generateObjectName(IdA, NameUnderscore, TextPlain), <<104, 105, 33>> >>,
      <<generateObjectName(IdB, NameATxt, TextPlain), BytesX>>,
      <<<<"1", "2", "3", "4", "5", "_", "t", "e", "s", "t", ".", "t", "x", "t">>, <<116, 101, 115, 116>> >> }

Bucket(objects) ==
    [n \in {o[1] : o \in objects} |->
        LET o == CHOOSE o \in objects : o[1] = n
        IN [data |-> o[2], contentType |-> PutContentType(n, DetectFromFilename(n))]]

InitialBuckets ==
    {Bucket(objects) : objects \in {s \in SUBSET StoredObjects : Cardinality(s) <= MaxStored}}

\* the request_id query parameters of the retrieval specification
RequestIDs == {<<>>, IdA, IdB, <<"1", "2", "3", "4", "5">>, <<"1", "2", "3", "4">>, <<"0">>}

(***************************************************************************)
(* Specifications.                                                         *)
(***************************************************************************)
GetIdle == [pc |-> "idle"]

NoCall == [op |-> "none"]

Init ==
    /\ now = 0
    /\ events = <<>>
    /\ store = <<>>
    /\ get = GetIdle
    /\ call = NoCall

Ingest(requests) ==
    \E req \in requests, d \in 0..1, randErr \in BOOLEAN, randomBytes \in RandomReads :
        /\ randErr => randomBytes = CHOOSE r \in RandomReads : TRUE
        /\ DepotHandler(req, d, randErr, randomBytes)

Save == \E e \in EventIds, ok \in BOOLEAN : SaveNext(e, ok)

Respond == \E e \in EventIds : SendResponse(e)

\* concurrent ingestion: up to MaxEvents requests, their save tasks and
\* their responses interleaved
Next ==
    \/ Ingest({ConcurrentRequest(Len(events) + 1)})
    \/ Save
    \/ Respond

Spec == Init /\ [][Next]_vars

\* decomposition: one request out of all of Requests, its save task and
\* its response
NextDecompose ==
    \/ events = <<>> /\ Ingest(Requests)
    \/ Save
    \/ Respond

SpecDecompose == Init /\ [][NextDecompose]_vars

Retrieve ==
    /\ get.pc = "idle"
    /\ \E requestID \in RequestIDs, raw \in BOOLEAN :
           \/ GetHandler(requestID, raw, FALSE, <<>>)
           \/ /\ requestID # <<>>
              /\ \E objects \in Listings(DOMAIN store) :
                     GetHandler(requestID, raw, TRUE, objects)

Fetch == \E ok \in BOOLEAN : GetNext(ok)

\* retrieval: a bucket that holds up to MaxStored objects, and one retrieval
\* of it
InitRetrieve ==
    /\ now = 0
    /\ events = <<>>
    /\ store \in InitialBuckets
    /\ get = GetIdle
    /\ call = NoCall

NextRetrieve ==
    \/ Retrieve
    \/ Fetch
    \/ GetFinish

SpecRetrieve == InitRetrieve /\ [][NextRetrieve]_vars

(***************************************************************************)
(* Calls of the object namers: the arguments are drawn by the initial      *)
(* state, a step applies one of the two namers to them.                    *)
(***************************************************************************)
NameTarGz == <<"a", "r", "c", "h", "i", "v", "e", ".", "t", "a", "r", ".", "g", "z">>
NameNoExt == <<"R", "E", "A", "D", "M", "E">>
NameDot == <<".">>
NameHidden == <<".", "e", "n", "v">>
NameDir == <<"d", "/", "a", ".", "t", "x", "t">>

Filenames ==
    {<<>>, NameATxt, NameUnderscore, NameTarGz, NameNoExt, NameDot, NameHidden, NameDir}

TypeTextJson == <<"t", "e", "x", "t", "/", "j", "s", "o", "n">>
TypeImageText == <<"i", "m", "a", "g", "e", "/", "x", "-", "t", "e", "x", "t">>
TypeMultipartImage == <<"m", "u", "l", "t", "i", "p", "a", "r", "t", "/", "x", "-", "i", "m", "a", "g", "e">>

ContentTypes ==
    {<<>>, ApplicationJson, TextPlain, ImagePng, MultipartFormData, OctetStream,
     ApplicationPdf, TypeTextJson, TypeImageText, TypeMultipartImage}

\* an id of the random path, one of the fallback path, one without "_"
NameIds == {IdA, Generate(1, TRUE, <<>>, 3), <<"1", "2", "3", "4", "5">>}

NameInputs ==
    {[op |-> "input", eventID |-> id, filename |-> f, contentType |-> ct] :
        id \in NameIds, f \in Filenames, ct \in ContentTypes}

InitName ==
    /\ now = 0
    /\ events = <<>>
    /\ store = <<>>
    /\ get = GetIdle
    /\ call \in NameInputs

CallGenerateObjectName ==
    /\ call.op = "input"
    /\ call' = [op |-> "generateObjectName", eventID |-> call.eventID,
                filename |-> call.filename, contentType |-> call.contentType,
                result |-> generateObjectName(call.eventID, call.filename,
                                              call.contentType)]
    /\ UNCHANGED <<now, events, store, get>>

CallMultipartGenerateObjectName ==
    /\ call.op = "input"
    /\ call' = [op |-> "multipartGenerateObjectName", eventID |-> call.eventID,
                filename |-> call.filename, contentType |-> call.contentType,
                result |-> multipartGenerateObjectName(call.eventID, call.filename)]
    /\ UNCHANGED <<now, events, store, get>>

NextName ==
    \/ CallGenerateObjectName
    \/ CallMultipartGenerateObjectName

SpecName == InitName /\ [][NextName]_vars

(***************************************************************************)
(* Calls of determineContentType: the object name is the one an object     *)
(* namer made of the drawn arguments.                                      *)
(***************************************************************************)
CallDetermineContentType ==
    /\ call.op = "input"
    /\ \E objectName \in {generateObjectName(call.eventID, call.filename, call.contentType),
                          multipartGenerateObjectName(call.eventID, call.filename)} :
           call' = [op |-> "determineContentType", objectName |-> objectName,
                    saved |-> call.contentType,
                    result |-> determineContentType(objectName)]
    /\ UNCHANGED <<now, events, store, get>>

NextContentType == CallDetermineContentType

SpecContentType == InitName /\ [][NextContentType]_vars

(***************************************************************************)
(* The depot end to end: one ingestion, its save task, and any number of   *)
(* retrievals and listings while and after the task runs.                  *)
(***************************************************************************)
\* a form with a single field and no file, as the endpoint test posts it
FormFieldsOnly == FormBody(<<45, 45, 98, 2>>, <<"b">>, <<Part(<<>>, BytesX, FALSE)>>, "eof")
\* two file parts that declare the same file name
FormSameName ==
    FormBody(<<45, 45, 98, 3>>, <<"b">>,
             <<Part(NameATxt, BytesHi, FALSE), Part(NameATxt, BytesBraces, FALSE)>>, "eof")
\* two files and a field between them
FormTwoFiles ==
    FormBody(<<45, 45, 98, 1>>, <<"b">>,
             <<Part(NameATxt, BytesHi, FALSE), Part(<<>>, BytesX, FALSE),
               Part(NameBJson, BytesBraces, FALSE)>>, "eof")
\* a form whose file is named like the objects of anonymous payloads
FormPayloadName ==
    FormBody(<<45, 45, 98, 7>>, <<"b">>,
             <<Part(PayloadWord \o DotTxt, BytesHi, FALSE)>>, "eof")

DispositionPayload == FilenameEq \o PayloadWord \o DotTxt
DispositionPdf == FilenameEq \o <<"r">> \o DotPdf

DepotRequests ==
    { Request(HeaderForm, <<>>, FormFieldsOnly),
      Request(HeaderForm, <<>>, FormSameName),
      Request(HeaderForm, <<>>, FormTwoFiles),
      Request(HeaderForm, <<>>, FormPayloadName),
      Request(HeaderTextCharset, DispositionUnderscore, RawBody(BytesHi)),
      Request(HeaderJson, DispositionDup, RawBody(BytesBraces)),
      Request(HeaderJson, DispositionBin, RawBody(BytesBraces)),
      Request(TextPlain, DispositionPayload, RawBody(BytesHi)),
      Request(OctetStream, DispositionPdf, RawBody(BytesX)),
      Request(HeaderJson, <<>>, RawBody(BytesBraces)),
      Request(ImagePng, <<>>, RawBody(BytesX)),
      Request(TextHtml, <<>>, RawBody(BytesHi)) }

\* the request ids a client has been told
AcceptedIds ==
    {events[e].resp[1].body.request_id :
        e \in {x \in EventIds : events[x].resp # <<>> /\ events[x].resp[1].code = 200}}

RetrieveAccepted ==
    /\ get.pc = "idle"
    /\ \E requestID \in AcceptedIds, raw \in BOOLEAN :
           \/ GetHandler(requestID, raw, FALSE, <<>>)
           \/ \E objects \in Listings(DOMAIN store) :
                  GetHandler(requestID, raw, TRUE, objects)

FormatListResponse(objects, count) == [count |-> count, objects |-> objects]

\* ListHandler: the names ListAllPayloads returns, or the error answer
ListHandler(listOk, objects) ==
    /\ get.pc = "idle"
    /\ get' = IF listOk
              THEN [pc |-> "listed",
                    resp |-> [code |-> 200, contentType |-> ApplicationJson,
                              body |-> FormatListResponse(objects, Len(objects))]]
              ELSE [pc |-> "listed",
                    resp |-> [code |-> 500, body |-> "Error listing payloads"]]
    /\ UNCHANGED <<now, events, store, call>>

List ==
    \/ ListHandler(FALSE, <<>>)
    \/ \E objects \in Listings(DOMAIN store) : ListHandler(TRUE, objects)

\* the handler has returned: the next retrieval or listing may arrive
GetReturn ==
    /\ get.pc \in {"done", "listed"}
    /\ get' = GetIdle
    /\ UNCHANGED <<now, events, store, call>>

NextDepot ==
    \/ events = <<>> /\ Ingest(DepotRequests)
    \/ Save
    \/ Respond
    \/ RetrieveAccepted
    \/ Fetch
    \/ GetFinish
    \/ List
    \/ GetReturn

SpecDepot == Init /\ [][NextDepot]_vars

(***************************************************************************)
(* Concurrent ingestion of single and multipart bodies, every detached     *)
(* save task scheduled fairly.                                             *)
(***************************************************************************)
PersistRequests ==
    { Request(HeaderForm, <<>>, FormTwoFiles),
      Request(HeaderForm, <<>>, FormSameName),
      Request(HeaderJson, DispositionDup, RawBody(BytesBraces)),
      Request(HeaderJson, <<>>, RawBody(BytesHi)) }

NextPersist ==
    \/ Ingest(PersistRequests)
    \/ Save
    \/ Respond

\* the Go scheduler runs every goroutine that can run
FairSaves == \A e \in 1..MaxEvents : WF_vars(\E ok \in BOOLEAN : SaveNext(e, ok))

SpecPersist == Init /\ [][NextPersist]_vars /\ FairSaves

(***************************************************************************)
(* Concurrent ingestion together with retrievals and listings.             *)
(***************************************************************************)
SharedRequests ==
    { Request(HeaderTextCharset, DispositionUnderscore, RawBody(BytesHi)),
      Request(HeaderForm, <<>>, FormPayloadName) }

NextShared ==
    \/ Ingest(SharedRequests)
    \/ Save
    \/ Respond
    \/ RetrieveAccepted
    \/ Fetch
    \/ GetFinish
    \/ List
    \/ GetReturn

SpecShared == Init /\ [][NextShared]_vars

(***************************************************************************)
(* Properties.                                                             *)
(***************************************************************************)
CharsOf(s) == {s[i] : i \in 1..Len(s)}

BeginsWith(s, prefix) == Len(s) >= Len(prefix) /\ SubSeq(s, 1, Len(prefix)) = prefix

\* the header DepotHandler passes on for event e
DeclaredType(e) ==
    IF events[e].req.contentType = <<>> THEN OctetStream ELSE events[e].req.contentType

\* the declared type of event e parses and names multipart/form-data
DeclaredMultipart(e) ==
    /\ ~ParseMediaType(DeclaredType(e)).err
    /\ BeginsWith(ParseMediaType(DeclaredType(e)).mediatype, MultipartFormData)

DeclaredBoundary(e) == Param(ParseMediaType(DeclaredType(e)).params, BoundaryKey)

\* the body of event e is framed on the declared boundary up to the end
Framed(e) ==
    /\ DeclaredBoundary(e) # <<>>
    /\ DeclaredBoundary(e) = events[e].req.body.boundary
    /\ events[e].req.body.end = "eof"

FileParts(e) == SelectSeq(events[e].req.body.parts, LAMBDA p : p.filename # <<>>)

\* C1: every unit of an ingestion, every Save its task issued and every
\* object in the bucket has a name that begins with the event id of the
\* ingestion followed by "_".
C1_NamesBeginWithEventId ==
    /\ \A e \in EventIds :
          LET prefix == events[e].generated \o <<"_">>
          IN /\ \A i \in 1..Len(events[e].payloads) :
                    BeginsWith(events[e].payloads[i].ObjectName, prefix)
             /\ \A i \in 1..Len(events[e].log) :
                    BeginsWith(events[e].log[i].name, prefix)
    /\ \A n \in DOMAIN store :
          \E e \in EventIds : BeginsWith(n, events[e].generated \o <<"_">>)

\* C1 witness: a multipart ingestion stored two units under two names.
C1_Witness ==
    \E e \in EventIds :
        /\ Len(events[e].payloads) = 2
        /\ Len(events[e].log) = 2
        /\ events[e].log[1].ok /\ events[e].log[2].ok
        /\ Cardinality(DOMAIN store) = 2

\* C2: two ingestions with different event ids have no object name in
\* common, and the bytes found under a name an ingestion saved are those of
\* a unit of that name of an ingestion with the same event id: an ingestion
\* with another id never overwrites it.
C2_DistinctIdsDistinctKeys ==
    /\ \A a, b \in EventIds :
          events[a].generated # events[b].generated =>
              \A i \in 1..Len(events[a].payloads) : \A j \in 1..Len(events[b].payloads) :
                  events[a].payloads[i].ObjectName # events[b].payloads[j].ObjectName
    /\ \A a \in EventIds : \A i \in 1..Len(events[a].log) :
          events[a].log[i].ok =>
              /\ events[a].log[i].name \in DOMAIN store
              /\ \E b \in EventIds : \E j \in 1..Len(events[b].payloads) :
                    /\ events[b].generated = events[a].generated
                    /\ events[b].payloads[j].ObjectName = events[a].log[i].name
                    /\ events[b].payloads[j].Data = store[events[a].log[i].name].data

\* C2 witness: two ingestions of the same file name with different ids and
\* different bytes are both stored, each under its name with its bytes.
C2_Witness ==
    \E a, b \in EventIds :
        /\ events[a].generated # events[b].generated
        /\ events[a].originalFilename = events[b].originalFilename
        /\ events[a].originalFilename # <<>>
        /\ events[a].req.body.raw # events[b].req.body.raw
        /\ Len(events[a].log) = 1 /\ events[a].log[1].ok
        /\ Len(events[b].log) = 1 /\ events[b].log[1].ok
        /\ store[events[a].payloads[1].ObjectName].data = events[a].req.body.raw
        /\ store[events[b].payloads[1].ObjectName].data = events[b].req.body.raw

\* C3 as stated: a generated event id never contains "_".
C3_NoUnderscoreInEventId ==
    \A e \in EventIds : "_" \notin CharsOf(events[e].generated)

\* C3 as amended: a generated event id contains exactly one "_", right after
\* the decimal timestamp; the token after it (the hex of the random bytes,
\* or the decimal nanosecond clock of the fallback) is not empty and
\* contains none.
C3_OneSeparatorInEventId ==
    \A e \in EventIds :
        LET id == events[e].generated
            stamp == Itoa(events[e].draw.timestamp)
        IN /\ Cardinality({i \in 1..Len(id) : id[i] = "_"}) = 1
           /\ BeginsWith(id, stamp \o <<"_">>)
           /\ Len(id) > Len(stamp) + 1

\* C3 witness: one id was generated on the random path and one on the
\* fallback path.
C3_Witness ==
    \E a, b \in EventIds : events[a].draw.randErr /\ ~events[b].draw.randErr

C5_OneUnitPerFilePart ==
    \A e \in EventIds :
        (/\ DeclaredMultipart(e)
         /\ Framed(e)
         /\ \A i \in 1..Len(events[e].req.body.parts) : ~events[e].req.body.parts[i].readErr)
        => /\ ~events[e].err
           /\ Len(events[e].payloads) = Len(FileParts(e))
           /\ \A i \in 1..Len(FileParts(e)) :
                 /\ events[e].payloads[i].ObjectName =
                        events[e].generated \o <<"_">> \o FileParts(e)[i].filename
                 /\ events[e].payloads[i].Data = FileParts(e)[i].data

\* C5 witness: a body of two file parts and one form field gave two units.
C5_Witness ==
    \E e \in EventIds :
        /\ DeclaredMultipart(e) /\ Framed(e)
        /\ Len(events[e].req.body.parts) = 3
        /\ Len(FileParts(e)) = 2
        /\ Len(events[e].payloads) = 2

\* C6 as stated: when a part that declares a file name cannot be read to
\* the end, the decomposition fails and returns no unit.
C6_AllOrNothing ==
    \A e \in EventIds :
        (/\ DeclaredMultipart(e)
         /\ DeclaredBoundary(e) # <<>>
         /\ DeclaredBoundary(e) = events[e].req.body.boundary
         /\ \E i \in 1..Len(events[e].req.body.parts) :
               /\ events[e].req.body.parts[i].filename # <<>>
               /\ events[e].req.body.parts[i].readErr)
        => events[e].err /\ events[e].payloads = <<>>

C8_ResponseIndependentOfSaves ==
    \A e \in EventIds :
        (~events[e].err /\ events[e].resp # <<>>)
        => /\ events[e].resp[1].code = 200
           /\ events[e].resp[1].body.status = "accepted"
           /\ events[e].resp[1].body.request_id = events[e].generated

\* C8 witness: the accepted answer was sent while the task has units to
\* save and none of them is stored.
C8_Witness ==
    \E e \in EventIds :
        /\ events[e].resp # <<>>
        /\ events[e].resp[1].code = 200
        /\ Len(events[e].payloads) > 0
        /\ events[e].log = <<>>
        /\ store = <<>>

\* C9: the Saves a task has issued are those of the first units of its
\* decomposition, one Save each and in decomposition order, whether they
\* succeeded or failed; and an object is in the bucket only if some Save of
\* its name succeeded.
C9_OneSavePerUnit ==
    /\ \A e \in EventIds :
          /\ Len(events[e].log) = events[e].next - 1
          /\ Len(events[e].log) <= Len(events[e].payloads)
          /\ \A i \in 1..Len(events[e].log) :
                events[e].log[i].name = events[e].payloads[i].ObjectName
    /\ DOMAIN store =
          UNION {{events[e].log[i].name :
                     i \in {j \in 1..Len(events[e].log) : events[e].log[j].ok}} :
                 e \in EventIds}

\* C9 witness: the first Save of a task failed, the second was issued and
\* succeeded, and only the second unit is stored.
C9_Witness ==
    \E e \in EventIds :
        /\ Len(events[e].payloads) = 2
        /\ Len(events[e].log) = 2
        /\ ~events[e].log[1].ok
        /\ events[e].log[2].ok
        /\ DOMAIN store = {events[e].payloads[2].ObjectName}

\* C10: the files a retrieval has collected are, in listing order, the
\* listed names that begin with "{request_id}_" and whose fetch did not
\* fail, each once; no other name is among them.
C10_AggregateByPrefix ==
    get.pc \in {"loop", "done"} =>
        LET seen == SubSeq(get.objects, 1, get.idx - 1)
            wanted == SelectSeq(seen, LAMBDA n :
                          BeginsWith(n, get.requestID \o <<"_">>) /\ n \notin get.failed)
        IN /\ Len(get.matched) = Len(wanted)
           /\ \A i \in 1..Len(wanted) : get.matched[i].ObjectName = wanted[i]
           /\ \A n \in get.failed : BeginsWith(n, get.requestID \o <<"_">>)

\* C10 witness: a finished retrieval returned a file, skipped a failed
\* fetch and left out an object of another request.
C10_Witness ==
    /\ get.pc = "done"
    /\ Len(get.matched) >= 1
    /\ get.failed # {}
    /\ \E i \in 1..Len(get.objects) :
          ~BeginsWith(get.objects[i], get.requestID \o <<"_">>)


\* the positions of the listing whose name begins with "{request_id}_"
MatchingPositions ==
    {i \in 1..Len(get.objects) : BeginsWith(get.objects[i], get.requestID \o <<"_">>)}

\* a retrieval that got its listing has ended
Retrieved == get.pc = "done" /\ get.listed /\ ~get.listErr

\* C11: when a retrieval that got its listing ends, every listed name that
\* begins with "{request_id}_" and whose fetch did not fail is among the
\* files returned, and the answer is the not-found error exactly when no
\* such name was fetched; otherwise it is the 200 answer.
C11_FailedFetchSkipped ==
    Retrieved =>
        LET fetched == {i \in MatchingPositions : get.objects[i] \notin get.failed}
        IN /\ \A i \in fetched :
                 \E k \in 1..Len(get.matched) : get.matched[k].ObjectName = get.objects[i]
           /\ (get.resp.code = 404) <=> (fetched = {})
           /\ (get.resp.code = 200) <=> (fetched # {})

\* C11 witness: a fetch failed, a later fetch succeeded, and the retrieval
\* ended with the 200 answer.
C11_Witness ==
    /\ Retrieved
    /\ get.resp.code = 200
    /\ \E i, j \in MatchingPositions :
          /\ i < j
          /\ get.objects[i] \in get.failed
          /\ get.objects[j] \notin get.failed

\* the status GetHandler answers with when no stored unit matches
NotFoundStatus == GetResponse(FALSE, [err |-> "no payloads found for request_id"]).code

\* C12 as stated: a retrieval whose listing failed ends at once, without
\* fetching, with an answer whose status is not the one of an event without
\* stored units.
C12_ListFailureSurfaced ==
    (get.pc = "done" /\ get.listErr) =>
        /\ get.matched = <<>> /\ get.failed = {} /\ get.idx = 1
        /\ get.resp.code # NotFoundStatus

\* C13: a retrieval that got its listing and fetched no file ends with the
\* not-found error, raw or not; a 200 answer always carries at least one
\* file: a metadata document of count >= 1, the bytes of one file, or an
\* archive of at least two entries.
C13_NotFoundWhateverRaw ==
    Retrieved =>
        /\ get.matched = <<>> =>
              /\ get.resp.code = 404
              /\ get.resp.body = "no payloads found for request_id"
        /\ get.resp.code = 200 =>
              /\ Len(get.matched) >= 1
              /\ ~get.raw => /\ get.resp.body.count >= 1
                             /\ get.resp.body.files # <<>>
              /\ (get.raw /\ get.resp.contentType = ApplicationZip
                          /\ Len(get.matched) # 1) => Len(get.resp.body) >= 2

\* C13 witness: a raw retrieval whose only matching fetch failed ended with
\* the not-found error.
C13_Witness ==
    /\ Retrieved
    /\ get.raw
    /\ get.failed # {}
    /\ get.matched = <<>>
    /\ get.resp.code = 404

\* C14 as stated: the original filename of every file returned for a
\* request id is what follows "{request_id}_" in its object name, and is
\* absent when that begins with "payload".
C14_OriginalFilenameIsRemainder ==
    get.pc \in {"loop", "done"} =>
        \A k \in 1..Len(get.matched) :
            LET R == From(get.matched[k].ObjectName, Len(get.requestID) + 1)
            IN get.matched[k].OriginalFilename =
                   IF HasPrefix(R, PayloadWord) THEN <<>> ELSE R

\* C15: a raw retrieval that fetched one file answers with the stored bytes
\* of that object, its content type and, as filename, its original filename
\* or else its object name; one that fetched several answers with an
\* archive named "payloads_{request_id}.zip" of the archive content type
\* that has one entry per file fetched.
C15_RawSingleOrArchive ==
    (Retrieved /\ get.raw /\ get.matched # <<>>) =>
        /\ get.resp.code = 200
        /\ IF Len(get.matched) = 1
           THEN LET file == get.matched[1]
                IN /\ get.resp.body = store[file.ObjectName].data
                   /\ get.resp.contentType = file.ContentType
                   /\ get.resp.contentType = determineContentType(file.ObjectName)
                   /\ get.resp.filename =
                          IF file.OriginalFilename # <<>> THEN file.OriginalFilename
                          ELSE file.ObjectName
           ELSE /\ get.resp.filename =
                       <<"p", "a", "y", "l", "o", "a", "d", "s", "_">> \o get.requestID
                           \o <<".", "z", "i", "p">>
                /\ get.resp.contentType = ApplicationZip
                /\ Len(get.resp.body) = Len(get.matched)

\* C15 witness: a raw retrieval returned one file under its original
\* filename.
C15_Witness ==
    /\ Retrieved
    /\ get.raw
    /\ Len(get.matched) = 1
    /\ get.matched[1].OriginalFilename # <<>>
    /\ get.resp.code = 200
    /\ get.resp.filename = get.matched[1].OriginalFilename
    /\ get.resp.body # <<>>



\* C16: the archive of a raw retrieval that fetched several files has one
\* entry per file, in the order the files were fetched; the i-th entry is
\* named by the original filename of the i-th file if it has one and by its
\* object name otherwise, and holds the stored bytes of that object.
C16_BundleEntries ==
    (Retrieved /\ get.raw /\ Len(get.matched) >= 2) =>
        /\ Len(get.resp.body) = Len(get.matched)
        /\ \A i \in 1..Len(get.matched) :
              /\ get.resp.body[i].name =
                     IF get.matched[i].OriginalFilename # <<>>
                     THEN get.matched[i].OriginalFilename
                     ELSE get.matched[i].ObjectName
              /\ get.resp.body[i].data = store[get.matched[i].ObjectName].data

\* C16 witness: three objects of one event were fetched and the archive has
\* three entries, one named by an original filename and one by an object
\* name.
C16_Witness ==
    /\ Retrieved
    /\ get.raw
    /\ Len(get.matched) = 3
    /\ Len(get.resp.body) = 3
    /\ \E i, j \in 1..3 :
          /\ get.resp.body[i].name = get.matched[i].OriginalFilename
          /\ get.resp.body[j].name = get.matched[j].ObjectName

\* the declared type of event e as DetectFromContentType normalizes it
NormalizedType(e) == DetectFromContentType(DeclaredType(e))

\* C17 as stated: an ingestion whose normalized declared type is not
\* multipart/form-data never fails to decompose and has exactly one unit,
\* which holds the whole body and is named by generateObjectName from the
\* event id, the filename of the request and the normalized type.
C17_SingleUnitWhenNotMultipart ==
    \A e \in EventIds :
        NormalizedType(e) # MultipartFormData =>
            /\ ~events[e].err
            /\ Len(events[e].payloads) = 1
            /\ events[e].payloads[1].Data = events[e].req.body.raw
            /\ events[e].payloads[1].ObjectName =
                   generateObjectName(events[e].generated, events[e].originalFilename,
                                      NormalizedType(e))

\* event e was decomposed as a single unit
SingleUnit(e) == ~events[e].err /\ ~HasPrefix(NormalizedType(e), MultipartFormData)

LastElement(filename) ==
    LET slashes == {i \in 1..Len(filename) : filename[i] = "/"}
    IN IF slashes = {} THEN filename
       ELSE SubSeq(filename, (CHOOSE i \in slashes : \A j \in slashes : j <= i) + 1,
                   Len(filename))

\* the position of the last "." of s, 0 when it has none
LastDot(s) ==
    LET dots == {i \in 1..Len(s) : s[i] = "."}
    IN IF dots = {} THEN 0 ELSE CHOOSE i \in dots : \A j \in dots : j <= i

\* C19: for a non-empty file name both namers return "{eventID}_{base}{ext}"
\* where ext is the part of the file name's last path element from its last
\* "." on, letter case kept (empty without a "."), and base is what comes
\* before it; the content type has no part in the result.
C19_NameKeepsFilename ==
    (call.op \in {"generateObjectName", "multipartGenerateObjectName"}
         /\ call.filename # <<>>) =>
        LET element == LastElement(call.filename)
            dot == LastDot(element)
            ext == IF dot = 0 THEN <<>> ELSE SubSeq(element, dot, Len(element))
            base == IF dot = 0 THEN element ELSE SubSeq(element, 1, dot - 1)
        IN call.result = call.eventID \o <<"_">> \o base \o ext

\* C19 witness: a file name with an upper-case extension and a "_" was named
\* under a content type that would give another extension.
C19_Witness ==
    /\ call.op = "generateObjectName"
    /\ call.filename = NameUnderscore
    /\ call.contentType = ApplicationJson
    /\ call.result = call.eventID \o <<"_">> \o NameUnderscore

\* the priority table of the content-type scan, first match first
ExtensionPriority ==
    <<[word |-> WordJson, ext |-> DotJson], [word |-> WordText, ext |-> DotTxt],
      [word |-> WordImage, ext |-> DotImg],
      [word |-> WordMultipart, ext |-> DotMultipart]>>

\* the extension the table gives a content type: that of the first entry
\* whose word occurs in it, ".bin" when none does
TableExtension(contentType) ==
    LET matching == {i \in DOMAIN ExtensionPriority :
                        Contains(contentType, ExtensionPriority[i].word)}
    IN IF matching = {} THEN DotBin
       ELSE ExtensionPriority[CHOOSE i \in matching : \A j \in matching : i <= j].ext

\* C20: without a file name the namer always returns a name, and the name is
\* "{eventID}_payload" followed by exactly the one extension of the first
\* matching word in the order json, text, image, multipart, ".bin" when no
\* word matches.
C20_PayloadNameByPriority ==
    (call.op = "generateObjectName" /\ call.filename = <<>>) =>
        /\ call.result = call.eventID \o <<"_">> \o PayloadWord
                             \o TableExtension(call.contentType)
        /\ TableExtension(call.contentType)
               \in {DotJson, DotTxt, DotImg, DotMultipart, DotBin}

\* C20 witness: a content type holding both "json" and "text" was named
\* without a file name and got ".json".
C20_Witness ==
    /\ call.op = "generateObjectName"
    /\ call.filename = <<>>
    /\ Contains(call.contentType, WordJson)
    /\ Contains(call.contentType, WordText)
    /\ call.result = call.eventID \o <<"_">> \o PayloadWord \o DotJson

\* s ends with the characters of suffix
EndsWith(s, suffix) ==
    /\ Len(s) >= Len(suffix)
    /\ \A i \in 1..Len(suffix) : s[Len(s) - Len(suffix) + i] = suffix[i]

\* C21: the content type retrieval reports for an object is that of the
\* suffix of its name: application/json for ".json", text/plain for ".txt",
\* multipart/form-data for ".multipart", application/octet-stream for ".img"
\* and for every other name, whatever type the object was saved with.
C21_TypeFromSuffixAlone ==
    call.op = "determineContentType" =>
        /\ EndsWith(call.objectName, DotJson) => call.result = ApplicationJson
        /\ EndsWith(call.objectName, DotTxt) => call.result = TextPlain
        /\ EndsWith(call.objectName, DotImg) => call.result = OctetStream
        /\ EndsWith(call.objectName, DotMultipart) => call.result = MultipartFormData
        /\ (\A suffix \in {DotJson, DotTxt, DotMultipart} :
                ~EndsWith(call.objectName, suffix)) => call.result = OctetStream

\* C21 witness: an object saved as image/png under a name ending in ".img"
\* is reported as application/octet-stream.
C21_Witness ==
    /\ call.op = "determineContentType"
    /\ EndsWith(call.objectName, DotImg)
    /\ call.saved = ImagePng
    /\ call.result = OctetStream

\* C21 witness: a name ending in ".TXT" is not in the table.
C21_WitnessOtherSuffix ==
    /\ call.op = "determineContentType"
    /\ EndsWith(call.objectName, <<".", "T", "X", "T">>)
    /\ call.result = OctetStream

\* event e was answered with 200
Accepted(e) == events[e].resp # <<>> /\ events[e].resp[1].code = 200

\* C22: the body of a 200 answer has status "accepted", the length of the
\* request body as size, the key original_filename exactly when the
\* Content-Disposition header gave a non-empty file name (then with that
\* name), and as request_id the event id every unit of the request, every
\* Save of its task and hence every object it stores is prefixed with.
C22_AcceptedResponse ==
    \A e \in EventIds :
        Accepted(e) =>
            LET body == events[e].resp[1].body
                filename == Extract(events[e].req.disposition)
            IN /\ body.status = "accepted"
               /\ body.size = Len(events[e].req.body.raw)
               /\ ("original_filename" \in DOMAIN body) <=> (filename # <<>>)
               /\ filename # <<>> => body.original_filename = filename
               /\ body.request_id = events[e].generated
               /\ \A i \in 1..Len(events[e].payloads) :
                      BeginsWith(events[e].payloads[i].ObjectName,
                                 body.request_id \o <<"_">>)
               /\ \A i \in 1..Len(events[e].log) :
                      /\ BeginsWith(events[e].log[i].name, body.request_id \o <<"_">>)
                      /\ events[e].log[i].ok => events[e].log[i].name \in DOMAIN store
               /\ (filename = <<>> /\ DeclaredType(e) = ApplicationJson) =>
                      /\ Len(events[e].payloads) = 1
                      /\ events[e].payloads[1].ObjectName =
                             body.request_id \o <<"_">> \o PayloadWord \o DotJson

\* C22 witness: a JSON body without file name was accepted and its task
\* stored "{request_id}_payload.json".
C22_Witness ==
    \E e \in EventIds :
        /\ Accepted(e)
        /\ events[e].req.contentType = ApplicationJson
        /\ "original_filename" \notin DOMAIN events[e].resp[1].body
        /\ DOMAIN store =
               {events[e].resp[1].body.request_id \o <<"_">> \o PayloadWord \o DotJson}

\* C22 witness: an accepted request with a file name.
C22_WitnessFilename ==
    \E e \in EventIds :
        /\ Accepted(e)
        /\ "original_filename" \in DOMAIN events[e].resp[1].body
        /\ events[e].resp[1].body.original_filename = Extract(DispositionDup)
        /\ store # <<>>

\* the body of event e is a well-framed form that holds fields only
FieldsOnly(e) ==
    /\ DeclaredMultipart(e)
    /\ Framed(e)
    /\ events[e].req.body.parts # <<>>
    /\ FileParts(e) = <<>>

\* C23: a well-framed multipart/form-data body whose parts are all fields
\* is decomposed into zero units without error: the request is accepted
\* under its event id, its task issues no Save, nothing is stored, and every
\* retrieval of that id is answered not found.
C23_FieldsOnlyStoresNothing ==
    \A e \in EventIds :
        FieldsOnly(e) =>
            /\ ~events[e].err
            /\ events[e].spawned
            /\ events[e].payloads = <<>>
            /\ events[e].log = <<>>
            /\ store = <<>>
            /\ events[e].resp # <<>> =>
                   /\ events[e].resp[1].code = 200
                   /\ events[e].resp[1].body.request_id = events[e].generated
            /\ (get.pc = "done" /\ get.requestID = events[e].generated) =>
                   /\ get.resp.code = NotFoundStatus
                   /\ ~get.listErr => get.resp.body = "no payloads found for request_id"

\* C23 witness: a form with one field was accepted and a retrieval of its
\* id, whose listing worked, was answered not found.
C23_Witness ==
    \E e \in EventIds :
        /\ events[e].req.body = FormFieldsOnly
        /\ Accepted(e)
        /\ Retrieved
        /\ get.requestID = events[e].resp[1].body.request_id
        /\ get.resp.code = NotFoundStatus

\* what a retrieval of requestID whose listing and fetches all work
\* returns: the matching objects and the bytes their base64 text stands for
Aggregate(requestID) ==
    {[ObjectName |-> n, Data |-> DecodeBase64(EncodeBase64(store[n].data)).bytes] :
        n \in {m \in DOMAIN store : Matches(m, requestID)}}

\* the units of event e, as names and bytes
Units(e) ==
    {[ObjectName |-> events[e].payloads[i].ObjectName,
      Data |-> events[e].payloads[i].Data] : i \in 1..Len(events[e].payloads)}

\* event e was accepted with at least one unit and no two units of one name
Decomposed(e) ==
    /\ e \in EventIds
    /\ ~events[e].err
    /\ Len(events[e].payloads) >= 1
    /\ \A i, j \in 1..Len(events[e].payloads) :
           events[e].payloads[i].ObjectName = events[e].payloads[j].ObjectName => i = j

SomeSaveFailed ==
    \E e \in EventIds : \E i \in 1..Len(events[e].log) : ~events[e].log[i].ok

\* the task of event e has ended and a retrieval returns exactly its units
Persisted(e) ==
    /\ e \in EventIds
    /\ events[e].next > Len(events[e].payloads)
    /\ Aggregate(events[e].generated) = Units(e)

\* another ingestion was given the event id of e
SharedId(e) ==
    /\ e \in EventIds
    /\ \E f \in EventIds : f # e /\ events[f].generated = events[e].generated

UnitNames(e) == {events[e].payloads[i].ObjectName : i \in 1..Len(events[e].payloads)}

\* the files a retrieval has fetched so far, and those it answers with
FetchedFiles ==
    IF get.pc \in {"loop", "done"} THEN {get.matched[i] : i \in 1..Len(get.matched)}
    ELSE {}

AnsweredFiles ==
    IF get.pc = "done" /\ get.resp.code = 200 /\ ~get.raw
    THEN {get.resp.body.files[i] : i \in 1..Len(get.resp.body.files)}
    ELSE {}

\* C25: a retrieval of the event id of ingestion A fetches and returns no
\* object of an ingestion B whose event id differs from A's, whatever the
\* file names; every file it returns is a unit of an ingestion with A's id.
C25_RetrievalIsolated ==
    \A a \in EventIds :
        (get.pc \in {"loop", "done"} /\ get.requestID = events[a].generated) =>
            /\ \A b \in EventIds :
                   events[b].generated # events[a].generated =>
                       \A file \in FetchedFiles \cup AnsweredFiles :
                           file.ObjectName \notin UnitNames(b)
            /\ \A file \in FetchedFiles \cup AnsweredFiles :
                   \E c \in EventIds :
                       /\ events[c].generated = events[a].generated
                       /\ file.ObjectName \in UnitNames(c)

\* C25 witness: two ingestions of the same second with different ids and a
\* file name with "_" have both stored their object, and a retrieval of one
\* id has returned one file.
C25_Witness ==
    /\ Len(events) = 2
    /\ events[1].generated # events[2].generated
    /\ events[1].draw.timestamp = events[2].draw.timestamp
    /\ \E e \in EventIds : events[e].originalFilename = NameUnderscore
    /\ Cardinality(DOMAIN store) = 2
    /\ Cardinality(AnsweredFiles) = 1

\* the task of event e has issued all its Saves and none failed
SavedAll(e) ==
    /\ events[e].spawned
    /\ events[e].next > Len(events[e].payloads)
    /\ \A i \in 1..Len(events[e].log) : events[e].log[i].ok

\* C26: two captured parts of one form that declare the same file name
\* become two units of the same object name; once the task has saved all
\* units, in decomposition order, the object of that name holds the bytes of
\* the last of these parts, and a retrieval of the event returns one file
\* for that name.
C26_SameNameLastWins ==
    \A e \in EventIds :
        \A i, j \in 1..Len(events[e].payloads) :
            (/\ DeclaredMultipart(e)
             /\ i < j
             /\ events[e].payloads[i].Filename = events[e].payloads[j].Filename
             /\ \A k \in (j + 1)..Len(events[e].payloads) :
                    events[e].payloads[k].Filename # events[e].payloads[j].Filename) =>
                LET name == events[e].payloads[j].ObjectName
                IN /\ events[e].payloads[i].ObjectName = name
                   /\ SavedAll(e) =>
                          /\ name \in DOMAIN store
                          /\ store[name].data = events[e].payloads[j].Data
                          /\ [ObjectName |-> name, Data |-> events[e].payloads[j].Data]
                                 \in Aggregate(events[e].generated)
                   /\ (get.pc \in {"loop", "done"}
                           /\ get.requestID = events[e].generated) =>
                          Cardinality({k \in 1..Len(get.matched) :
                                          get.matched[k].ObjectName = name}) <= 1
                   /\ (Retrieved /\ get.requestID = events[e].generated
                           /\ get.failed = {} /\ name \in CharsOf(get.objects)) =>
                          Cardinality({k \in 1..Len(get.matched) :
                                          get.matched[k].ObjectName = name}) = 1

\* C26 witness: both parts named a.txt were saved, the object holds the
\* bytes of the second, and a retrieval answered with one file.
C26_Witness ==
    \E e \in EventIds :
        /\ events[e].req.body = FormSameName
        /\ SavedAll(e)
        /\ Len(events[e].log) = 2
        /\ Retrieved
        /\ get.resp.code = 200
        /\ Len(get.matched) = 1
        /\ get.matched[1].PayloadBase64 = EncodeBase64(BytesBraces)
        /\ store[get.matched[1].ObjectName].data = BytesBraces

SuffixType(objectName) ==
    IF EndsWith(objectName, DotJson) THEN ApplicationJson
    ELSE IF EndsWith(objectName, DotTxt) THEN TextPlain
    ELSE IF EndsWith(objectName, DotMultipart) THEN MultipartFormData
    ELSE OctetStream

\* the units of the retrieved event that a fetched file is the object of
UnitsOf(file) ==
    {u \in UNION {{events[e].payloads[i] : i \in 1..Len(events[e].payloads)} :
                     e \in {x \in EventIds : events[x].generated = get.requestID}} :
        u.ObjectName = file.ObjectName}

\* C28 as stated: the content type a retrieval reports for a file is the
\* content type the decomposer gave the unit stored under that name.
C28_ContentTypeRoundTrip ==
    \A file \in FetchedFiles : \A u \in UnitsOf(file) : file.ContentType = u.ContentType

\* C28: the content type a retrieval reports for a file is the type of the
\* suffix of its object name.  It is the type the decomposer gave the unit
\* when the unit has a file name ending in ".json" or ".txt", and when the
\* unit has no file name and was given application/json, text/plain or
\* application/octet-stream.
C28_ContentTypeOfSuffix ==
    \A file \in FetchedFiles :
        /\ file.ContentType = SuffixType(file.ObjectName)
        /\ \A u \in UnitsOf(file) :
               /\ (EndsWith(u.Filename, DotJson) \/ EndsWith(u.Filename, DotTxt)) =>
                      file.ContentType = u.ContentType
               /\ (u.Filename = <<>>
                       /\ u.ContentType \in {ApplicationJson, TextPlain, OctetStream}) =>
                      file.ContentType = u.ContentType

\* C28 witness: a body declared image/png was stored as image/png and is
\* reported as application/octet-stream.
C28_Witness ==
    \E file \in FetchedFiles : \E u \in UnitsOf(file) :
        /\ u.ContentType = ImagePng
        /\ store[file.ObjectName].contentType = ImagePng
        /\ file.ContentType = OctetStream

\* C28 witness: a file named dup.txt, declared application/json, is reported
\* with the type the decomposer gave it.
C28_WitnessSame ==
    \E file \in FetchedFiles : \E u \in UnitsOf(file) :
        /\ u.Filename # <<>>
        /\ u.ContentType = TextPlain
        /\ file.ContentType = TextPlain

\* the step is a successful Save of the task of event e
SavedBy(e) ==
    /\ events[e].next <= Len(events[e].payloads)
    /\ events'[e].next = events[e].next + 1
    /\ LET payload == events[e].payloads[events[e].next]
       IN /\ DOMAIN store' = DOMAIN store \cup {payload.ObjectName}
          /\ store'[payload.ObjectName].data = payload.Data
          /\ \A n \in DOMAIN store \ {payload.ObjectName} : store'[n] = store[n]

\* C29: no step of a retrieval (structured, raw or archive) or of a listing
\* changes the bucket; the bucket changes only by a Save of a background
\* task of an ingestion; and an object name in the bucket stays in it.
C29_ReadsLeaveBucket ==
    [][/\ get' # get => store' = store
       /\ store' # store => \E e \in EventIds : SavedBy(e)
       /\ DOMAIN store \subseteq DOMAIN store']_vars

\* C29 witness: with two objects in the bucket a raw retrieval and so a
\* single file or an archive has been served.
C29_Witness ==
    /\ Cardinality(DOMAIN store) = 2
    /\ get.pc = "done"
    /\ get.raw
    /\ get.resp.code = 200

\* C29 witness: a listing of two objects has been served.
C29_WitnessList ==
    /\ get.pc = "listed"
    /\ get.resp.code = 200
    /\ get.resp.body.count = 2

\* C30: a declared content type that mime.ParseMediaType refuses, also one
\* that begins with multipart/form-data, does not make the decomposition
\* fail: it is normalised to application/octet-stream, the body is not read
\* as a form, and the one unit emitted is the whole body, named
\* "{id}_payload.bin" when the request has no file name.
C30_UnparsableTypeIsBinary ==
    \A e \in EventIds :
        ParseMediaType(DeclaredType(e)).err =>
            /\ NormalizedType(e) = OctetStream
            /\ ~events[e].err
            /\ Len(events[e].payloads) = 1
            /\ events[e].payloads[1].Data = events[e].req.body.raw
            /\ events[e].payloads[1].Filename = events[e].originalFilename
            /\ events[e].originalFilename = <<>> =>
                   /\ events[e].payloads[1].ObjectName =
                          events[e].generated \o <<"_">> \o PayloadWord \o DotBin
                   /\ events[e].payloads[1].ContentType = OctetStream

\* C30 witness: a form framed on "b" with two files, declared with the
\* broken header "multipart/form-data; boundary", was stored as one object.
C30_Witness ==
    \E e \in EventIds :
        /\ events[e].req.contentType = HeaderFormBroken
        /\ Len(events[e].req.body.parts) = 3
        /\ events[e].req.body.end = "eof"
        /\ events[e].req.disposition = <<>>
        /\ DOMAIN store = {events[e].generated \o <<"_">> \o PayloadWord \o DotBin}
        /\ store[events[e].generated \o <<"_">> \o PayloadWord \o DotBin].data =
               events[e].req.body.raw
====
